---- MODULE Spec2Model ----
(***************************************************************************)
(* Model of src/main.py: the Civitai image scraper.                        *)
(*                                                                         *)
(* One asyncio task per target URL runs performCivitaiImageScrape on a     *)
(* single event loop.  An action of the model is the code one task runs    *)
(* between two suspension points (await), so the interleavings of the      *)
(* model are those of the cooperative scheduler.  Strings are TLC strings  *)
(* and the string functions of the code (startswith, split, lower,         *)
(* concatenation) are computed character by character.                     *)
(*                                                                         *)
(* Spec is the run of main(): the URL tasks, then the element report, the  *)
(* export and the saving of the history.  SpecFn runs single calls of the  *)
(* pure functions get_common_prefix, get_element_path and of the count     *)
(* reading of a reaction button, on arguments drawn from bounded sets.     *)
(***************************************************************************)
EXTENDS Integers, Sequences, FiniteSets, TLC

(***************************************************************************)
(* String helpers (Python str methods used by the code).                   *)
(***************************************************************************)
None == "<None>"

CharAt(s, i) == SubSeq(s, i, i)

\* str.startswith(p)
StartsWith(s, p) == Len(s) >= Len(p) /\ SubSeq(s, 1, Len(p)) = p

\* positions of character c in s
Positions(s, c) == {i \in 1..Len(s) : CharAt(s, i) = c}

SetMin(S) == CHOOSE x \in S : \A y \in S : x <= y
SetMax(S) == CHOOSE x \in S : \A y \in S : x >= y

\* s.split(c)[0]
SplitFirst(s, c) ==
    IF Positions(s, c) = {} THEN s ELSE SubSeq(s, 1, SetMin(Positions(s, c)) - 1)

\* s.split(c)[-1]
SplitLast(s, c) ==
    IF Positions(s, c) = {} THEN s ELSE SubSeq(s, SetMax(Positions(s, c)) + 1, Len(s))

Uppers == "ABCDEFGHIJKLMNOPQRSTUVWXYZ"
Lowers == "abcdefghijklmnopqrstuvwxyz"

LowerChar(c) ==
    IF Positions(Uppers, c) = {} THEN c
    ELSE CharAt(Lowers, SetMin(Positions(Uppers, c)))

RECURSIVE Lower(_)
\* str.lower()
Lower(s) == IF Len(s) = 0 THEN "" ELSE LowerChar(CharAt(s, 1)) \o Lower(SubSeq(s, 2, Len(s)))

\* str.isalpha(): non-empty and every character a letter
IsAlpha(s) ==
    /\ Len(s) > 0
    /\ \A i \in 1..Len(s) :
          Positions(Uppers, CharAt(s, i)) # {} \/ Positions(Lowers, CharAt(s, i)) # {}

(***************************************************************************)
(* Inputs: the URL file, the history file, the pages the site serves and   *)
(* the image bytes behind each thumbnail URL.                              *)
(***************************************************************************)

\* urlTarget.txt as read by read_urls_from_file: the lines starting with "http"
target_urls == <<"https://civitai.com/images?tags=4", "https://civitai.com/images?tags=5">>

Tasks == DOMAIN target_urls

IMAGE_DIR_BASE == "images_civitai"

\* os.path.join(IMAGE_DIR_BASE, "downloaded_images")
civitai_image_folder_path == IMAGE_DIR_BASE \o "/" \o "downloaded_images"

\* hashlib.md5(data_bytes).hexdigest(): equal bytes give equal digests, and the
\* payloads of the model have different digests
calculate_md5(data_bytes) == "md5" \o data_bytes

\* os.path.abspath on the working directory of the run
Abspath(p) == "/cwd/" \o p

EmptyHistory == [h \in {} |-> ""]

\* download_history_civitai.json as left by an earlier run: absent/empty, or
\* holding the entry of one image stored earlier
HistoryFiles ==
    { EmptyHistory,
      [h \in {calculate_md5("B1")} |-> civitai_image_folder_path \o "/md5B1.gif"] }

\* One image card of the gallery as BeautifulSoup shows it: has_img is
\* unit.find("img"), src is img.get("src"), has_a is img.find_parent("a") and
\* href is parent_a.get("href").  Every link around an image carries an href.
uA      == [has_img |-> TRUE,  src |-> "http://c/a.png",  has_a |-> TRUE,  href |-> "/i|http://c/j"]
uB      == [has_img |-> TRUE,  src |-> "http://c/b.jpeg", has_a |-> TRUE,  href |-> "/i"]
uC      == [has_img |-> TRUE,  src |-> "http://c/a.png|https://civitai.com/i",
            has_a |-> TRUE,  href |-> "http://c/j"]
uNoImg  == [has_img |-> FALSE, src |-> None,              has_a |-> FALSE, href |-> None]
uBadSrc == [has_img |-> TRUE,  src |-> "data:x",          has_a |-> TRUE,  href |-> "/k"]

\* The bytes the image server returns for a thumbnail URL: a.png and b.jpeg
\* are the same picture under two URLs
ResponseBody(url) ==
    IF url \in {"http://c/a.png", "http://c/b.jpeg"} THEN "B1" ELSE "B2"

\* What page.content() can return after a scroll: container is whether
\* select_one(main_content_area_selector) finds the main container, units are
\* the cards find_all returns inside it
Pages ==
    << [container |-> FALSE, units |-> << >>],
       [container |-> TRUE,  units |-> << >>],
       [container |-> TRUE,  units |-> <<uNoImg, uBadSrc>>],
       [container |-> TRUE,  units |-> <<uB, uA>>],
       [container |-> TRUE,  units |-> <<uA, uC>>] >>

\* The pages each target URL's gallery can show: the two searches overlap
\* in the picture uA
PagesOf(t) == IF t = 1 THEN {1, 2, 3, 5} ELSE {1, 4}

(***************************************************************************)
(* Bounds and program constants.                                           *)
(***************************************************************************)

\* The attempt cap of the scroll loop.  The source sets 50; the model runs
\* the same loop with the cap scaled down to keep the state space finite.
max_scroll_attempts == 4

\* "if elapsed >= 20": the no-new-content threshold in seconds
NoNewTimeout == 20

\* Seconds of wall-clock time one Tick lets pass
TickSeconds == 10

(***************************************************************************)
(* Pure parts of process_image_data and of the extraction loop.            *)
(***************************************************************************)

\* The extension process_image_data derives from the URL
FileExtension(image_url) ==
    LET url_without_query == SplitFirst(image_url, "?")
        file_extension    == Lower(SplitLast(url_without_query, "."))
    IN  IF Len(file_extension) = 0 \/ Len(file_extension) > 5 \/ ~IsAlpha(file_extension)
        THEN "jpg"
        ELSE file_extension

\* os.path.join(base_folder_path, f"{image_content_md5}.{file_extension}")
LocalFilename(image_url, image_content_md5) ==
    civitai_image_folder_path \o "/" \o image_content_md5 \o "." \o FileExtension(image_url)

\* A unit the loop does not skip: it has an img whose src starts with "http"
Usable(u) == u.has_img /\ u.src # None /\ u.src # "" /\ StartsWith(u.src, "http")

\* original_page_url of a unit: "" without a parent link, the href made
\* absolute when it does not start with "http"
OriginalPageUrl(u) ==
    IF ~u.has_a THEN ""
    ELSE IF u.href # "" /\ ~StartsWith(u.href, "http")
         THEN "https://civitai.com" \o u.href
         ELSE u.href

\* unique_key = thumbnail_url + "|" + original_page_url
UniqueKey(thumbnail_url, original_page_url) == thumbnail_url \o "|" \o original_page_url

\* The (thumbnail URL, detail-page URL) pair of a usable unit
UnitPair(u) == <<u.src, OriginalPageUrl(u)>>

\* result_data as built for a unit once process_image_data has returned
\* local_image_path (None on failure).  The capture time, the keyword and the
\* five button counts do not depend on the shared state and are left out.
ResultData(target_url, u, local_image_path) ==
    [ search_url        |-> target_url,
      thumbnail_url     |-> u.src,
      local_path        |-> IF local_image_path # None THEN Abspath(local_image_path) ELSE "",
      local_hyperlink   |-> IF local_image_path # None
                            THEN "file://" \o Abspath(local_image_path) ELSE "",
      original_page_url |-> OriginalPageUrl(u) ]

\* An append that writes over the last element: a lost update
LockedAppend_LostUpdate(data, result_data) ==
    IF Len(data) = 0 THEN <<result_data>> ELSE [data EXCEPT ![Len(data)] = result_data]

\* async with data_lock: all_search_results_data.append(result_data).  No
\* task awaits while holding the lock, so the lock is free whenever a task
\* reaches it and acquire, append and release are one step.
LockedAppend(data, result_data) == Append(data, result_data)

(***************************************************************************)
(* State.                                                                  *)
(***************************************************************************)
VARIABLES
    main_pc,                  \* where main() stands
    task,                     \* task[t]: the locals of performCivitaiImageScrape for target_urls[t]
    all_search_results_data,  \* the shared result list
    download_history,         \* the shared map content hash -> local path
    files,                    \* the image files on disk: path -> bytes
    global_page_html,         \* the shared last-HTML slot
    call                      \* a call of one of the pure functions: its arguments and result

vars == <<main_pc, task, all_search_results_data, download_history, files, global_page_html, call>>

\* no_new_images_start_time = None: no timer is running
NoTimer == -1

\* A local that has not been assigned yet (no_new_images_count)
Unbound == -1

\* global_page_html = None, and page_html before the first page.content()
NoHtml == 0

\* No call of a pure function is being looked at
NoCall == [fn |-> "none"]

\* The locals of one URL task.  pc is the await the task is suspended at:
\*   "nav"    page.goto                      "fetch"  session.get / response.read
\*   "scroll" evaluate, sleep, page.content  "write"  aiofiles.open / f.write
\*   "close"  page.close after the loop
\* and "done" (returned), "crashed" (left by an uncaught exception),
\* "cancelled" (cancelled when main() was left by an exception).
\* elapsed is time.time() - no_new_images_start_time, NoTimer while
\* no_new_images_start_time is None.  encountered and appended_since_start
\* are history variables: the pairs of the usable units the for loop has
\* visited, and whether the task appended a record since the timer started.
InitTask ==
    [ pc                           |-> "idle",
      page_open                    |-> FALSE,
      scroll_attempts              |-> 0,
      processed_image_detail_urls  |-> {},
      elapsed                      |-> NoTimer,
      no_new_images_count          |-> Unbound,
      page_html                    |-> NoHtml,
      unit_idx                     |-> 0,
      newly_processed_this_scroll  |-> 0,
      local_image_path             |-> None,
      encountered                  |-> {},
      appended_since_start         |-> FALSE ]

Init ==
    /\ main_pc = "load_history"
    /\ task = [t \in Tasks |-> InitTask]
    /\ all_search_results_data = << >>
    /\ download_history = EmptyHistory
    /\ files = EmptyHistory
    /\ global_page_html = NoHtml
    /\ call = NoCall

(***************************************************************************)
(* The scroll loop of performCivitaiImageScrape, as functions of the       *)
(* task's locals.                                                          *)
(***************************************************************************)
Min(a, b) == IF a <= b THEN a ELSE b

\* "while scroll_attempts < max_scroll_attempts: scroll_attempts += 1" up to
\* the awaits of the scroll, or past the loop to "await page.close()"
LoopHead(l) ==
    IF l.scroll_attempts < max_scroll_attempts
    THEN [l EXCEPT !.pc = "scroll", !.scroll_attempts = @ + 1, !.unit_idx = 0]
    ELSE [l EXCEPT !.pc = "close", !.unit_idx = 0]

\* EndIteration without the break on the threshold
EndIteration_NoBreak(l, current_image_count) ==
    IF l.newly_processed_this_scroll = 0 /\ current_image_count > 0
    THEN LET started == l.elapsed = NoTimer
             l1 == [l EXCEPT !.elapsed = IF started THEN 0 ELSE @,
                             !.appended_since_start = IF started THEN FALSE ELSE @,
                             !.unit_idx = 0]
         IN  IF l.no_new_images_count = Unbound
             THEN [l1 EXCEPT !.pc = "crashed"]
             ELSE LoopHead(l1)
    ELSE LoopHead([l EXCEPT !.elapsed = NoTimer, !.no_new_images_count = 0])

\* The bookkeeping after the for loop: the no-new-content timer
EndIteration(l, current_image_count) ==
    IF l.newly_processed_this_scroll = 0 /\ current_image_count > 0
    THEN LET started == l.elapsed = NoTimer
             l1 == [l EXCEPT !.elapsed = IF started THEN 0 ELSE @,
                             !.appended_since_start = IF started THEN FALSE ELSE @,
                             !.unit_idx = 0]
         IN  IF l.no_new_images_count = Unbound
             THEN [l1 EXCEPT !.pc = "crashed"]      \* UnboundLocalError in the log line
             ELSE IF l1.elapsed >= NoNewTimeout
                  THEN [l1 EXCEPT !.pc = "close"]   \* break
                  ELSE LoopHead(l1)
    ELSE LoopHead([l EXCEPT !.elapsed = NoTimer, !.no_new_images_count = 0])

RECURSIVE ForUnits(_, _, _)
\* "for unit in image_comment_units" from the i-th unit on, up to the next
\* await: the download of the first unit that is usable and not yet seen
ForUnits(l, units, i) ==
    IF i > Len(units) THEN EndIteration(l, Len(units))
    ELSE LET unit == units[i] IN
         IF ~Usable(unit) THEN ForUnits(l, units, i + 1)
         ELSE LET unique_key == UniqueKey(unit.src, OriginalPageUrl(unit))
                  l1 == [l EXCEPT !.encountered = @ \cup {UnitPair(unit)}]
              IN  IF unique_key \in l.processed_image_detail_urls
                  THEN ForUnits(l1, units, i + 1)
                  ELSE [l1 EXCEPT !.pc = "fetch",
                                  !.unit_idx = i,
                                  !.processed_image_detail_urls = @ \cup {unique_key},
                                  !.newly_processed_this_scroll = @ + 1]

\* Iteration with the timer reset when the container is missing
Iteration_MissingContainerResets(l, p) ==
    LET l1 == [l EXCEPT !.page_html = p] IN
    IF ~Pages[p].container
    THEN LoopHead([l1 EXCEPT !.elapsed = NoTimer])
    ELSE ForUnits([l1 EXCEPT !.newly_processed_this_scroll = 0], Pages[p].units, 1)

\* One iteration from the HTML page.content() returned
Iteration(l, p) ==
    LET l1 == [l EXCEPT !.page_html = p] IN
    IF ~Pages[p].container
    THEN LoopHead(l1)                               \* warning, continue
    ELSE ForUnits([l1 EXCEPT !.newly_processed_this_scroll = 0], Pages[p].units, 1)

\* The unit a task suspended in process_image_data is downloading
CurrentUnit(l) == Pages[l.page_html].units[l.unit_idx]

\* After process_image_data returned local_image_path: the record is built
\* and the for loop goes on with the next unit
AfterDownload(l, local_image_path) ==
    ForUnits([l EXCEPT !.local_image_path = local_image_path,
                       !.appended_since_start = TRUE],
             Pages[l.page_html].units, l.unit_idx + 1)

(***************************************************************************)
(* Actions of main().                                                      *)
(***************************************************************************)

\* load_download_history(DOWNLOAD_HISTORY_FILE); the files of the entries
\* of an earlier run are on disk
LoadHistory ==
    /\ main_pc = "load_history"
    /\ \E h \in HistoryFiles :
          /\ download_history' = h
          /\ files' = [f \in {h[k] : k \in DOMAIN h} |-> "B1"]
    /\ main_pc' = "read_urls"
    /\ UNCHANGED <<call, task, all_search_results_data, global_page_html>>

\* read_urls_from_file gave no URL: main logs, closes the browser and returns
ReadUrlsEmpty ==
    /\ main_pc = "read_urls"
    /\ main_pc' = "no_urls"
    /\ UNCHANGED <<call, task, all_search_results_data, download_history, files, global_page_html>>

\* read_urls_from_file gave target_urls: one task per URL is started by
\* gather; each runs up to its first await, page.goto
StartTasks ==
    /\ main_pc = "read_urls"
    /\ main_pc' = "gather"
    /\ task' = [t \in Tasks |-> [InitTask EXCEPT !.pc = "nav", !.page_open = TRUE]]
    /\ UNCHANGED <<call, all_search_results_data, download_history, files, global_page_html>>

\* await asyncio.gather(*tasks) returns once every task has returned;
\* browser.close()
GatherDone ==
    /\ main_pc = "gather"
    /\ \A t \in Tasks : task[t].pc = "done"
    /\ main_pc' = "browser_closed"
    /\ UNCHANGED <<call, task, all_search_results_data, download_history, files, global_page_html>>

\* gather re-raises the first exception of a task: main() is left by it
GatherRaise ==
    /\ main_pc = "gather"
    /\ \E t \in Tasks : task[t].pc = "crashed"
    /\ main_pc' = "aborted"
    /\ UNCHANGED <<call, task, all_search_results_data, download_history, files, global_page_html>>

\* analyze_civitai_element_structure(global_page_html), then the element log
\* (open(ELEMENT_LOG_FILE, "w") and its writes) and the element workbook
\* (wb_elements.save).  What the two files hold is not modelled; a write that
\* raises leaves main() by the exception.
WriteElementReport ==
    /\ main_pc = "browser_closed"
    /\ main_pc' \in {"report_written", "write_failed"}
    /\ UNCHANGED <<call, task, all_search_results_data, download_history, files, global_page_html>>

\* "try: os.startfile(...) except Exception: subprocess.Popen(['notepad.exe', ...])"
\* and the same for the workbook with ['start', ...], shell=True.  Where
\* os.startfile works, or notepad.exe can be started, main() goes on.  Where
\* neither is there (os.startfile exists on Windows only), Popen raises
\* FileNotFoundError outside any try and main() is left by it.
OpenElementReport ==
    /\ main_pc = "report_written"
    /\ main_pc' \in {"report_opened", "viewer_failed"}
    /\ UNCHANGED <<call, task, all_search_results_data, download_history, files, global_page_html>>

\* The record workbook is built from all_search_results_data and saved:
\* wb.save(excel_filename) returns or raises
ExportResults ==
    /\ main_pc = "report_opened"
    /\ main_pc' \in {"exported", "export_failed"}
    /\ UNCHANGED <<call, task, all_search_results_data, download_history, files, global_page_html>>

\* save_download_history(DOWNLOAD_HISTORY_FILE): it catches its own errors
SaveHistory ==
    /\ main_pc = "exported"
    /\ main_pc' = "finished"
    /\ UNCHANGED <<call, task, all_search_results_data, download_history, files, global_page_html>>

Suspended(l) == l.pc \in {"nav", "scroll", "fetch", "write", "close"}

\* asyncio.run cancels the tasks still pending when main() was left by an
\* exception: the task gets CancelledError at the await it is suspended at
Cancel(t) ==
    /\ main_pc = "aborted"
    /\ Suspended(task[t])
    /\ task' = [task EXCEPT ![t].pc = "cancelled"]
    /\ UNCHANGED <<call, main_pc, all_search_results_data, download_history, files, global_page_html>>

(***************************************************************************)
(* Actions of a URL task: each is the code from one await to the next.     *)
(***************************************************************************)
Running(t) == main_pc \in {"gather", "aborted"}

\* NavFail without the page.close()
NavFail_NoClose(t) ==
    /\ Running(t)
    /\ task[t].pc = "nav"
    /\ task' = [task EXCEPT ![t].pc = "done"]
    /\ UNCHANGED <<call, main_pc, all_search_results_data, download_history, files, global_page_html>>

\* page.goto raised: log, await page.close(), return
NavFail(t) ==
    /\ Running(t)
    /\ task[t].pc = "nav"
    /\ task' = [task EXCEPT ![t].pc = "done", ![t].page_open = FALSE]
    /\ UNCHANGED <<call, main_pc, all_search_results_data, download_history, files, global_page_html>>

\* page.goto returned: the locals are set up and the first iteration starts
NavOk(t) ==
    /\ Running(t)
    /\ task[t].pc = "nav"
    /\ task' = [task EXCEPT ![t] = LoopHead(@)]
    /\ UNCHANGED <<call, main_pc, all_search_results_data, download_history, files, global_page_html>>

\* page.content() returned page p: parse it and run the iteration up to the
\* next await
Scroll(t) ==
    /\ Running(t)
    /\ task[t].pc = "scroll"
    /\ \E p \in PagesOf(t) : task' = [task EXCEPT ![t] = Iteration(@, p)]
    /\ UNCHANGED <<call, main_pc, all_search_results_data, download_history, files, global_page_html>>

\* The loop passes only URLs that start with "http" to process_image_data,
\* so its two guards for empty and non-http URLs never fire.
\* session.get / raise_for_status / response.read raised: process_image_data
\* logs and returns (None, None); the record is appended without local path
FetchFail(t) ==
    /\ Running(t)
    /\ task[t].pc = "fetch"
    /\ all_search_results_data' =
          LockedAppend(all_search_results_data,
                       ResultData(target_urls[t], CurrentUnit(task[t]), None))
    /\ task' = [task EXCEPT ![t] = AfterDownload(@, None)]
    /\ UNCHANGED <<call, main_pc, download_history, files, global_page_html>>

\* response.read returned bytes whose hash is in download_history: the
\* recorded path is returned and nothing is written
FetchHit(t) ==
    /\ Running(t)
    /\ task[t].pc = "fetch"
    /\ LET unit == CurrentUnit(task[t])
           image_content_md5 == calculate_md5(ResponseBody(unit.src))
       IN  /\ image_content_md5 \in DOMAIN download_history
           /\ all_search_results_data' =
                 LockedAppend(all_search_results_data,
                              ResultData(target_urls[t], unit, download_history[image_content_md5]))
           /\ task' = [task EXCEPT ![t] = AfterDownload(@, download_history[image_content_md5])]
    /\ UNCHANGED <<call, main_pc, download_history, files, global_page_html>>

\* response.read returned bytes whose hash is not in download_history: the
\* task goes on to aiofiles.open / f.write and is suspended there
FetchMiss(t) ==
    /\ Running(t)
    /\ task[t].pc = "fetch"
    /\ calculate_md5(ResponseBody(CurrentUnit(task[t]).src)) \notin DOMAIN download_history
    /\ task' = [task EXCEPT ![t].pc = "write"]
    /\ UNCHANGED <<call, main_pc, all_search_results_data, download_history, files, global_page_html>>

\* WriteFail with the history entry recorded before the write that fails
WriteFail_HistoryFirst(t) ==
    /\ Running(t)
    /\ task[t].pc = "write"
    /\ LET unit == CurrentUnit(task[t])
           image_content_md5 == calculate_md5(ResponseBody(unit.src))
       IN  download_history' = [h \in DOMAIN download_history \cup {image_content_md5} |->
                                   IF h = image_content_md5
                                   THEN LocalFilename(unit.src, image_content_md5)
                                   ELSE download_history[h]]
    /\ all_search_results_data' =
          LockedAppend(all_search_results_data,
                       ResultData(target_urls[t], CurrentUnit(task[t]), None))
    /\ task' = [task EXCEPT ![t] = AfterDownload(@, None)]
    /\ UNCHANGED <<call, main_pc, files, global_page_html>>

\* aiofiles.open or f.write raised: (None, None) is returned, the history
\* is not touched.  The file is absent or as it was (open failed), or left
\* truncated (write failed).
WriteFail(t) ==
    /\ Running(t)
    /\ task[t].pc = "write"
    /\ LET unit == CurrentUnit(task[t])
           local_filename == LocalFilename(unit.src, calculate_md5(ResponseBody(unit.src)))
       IN  \/ files' = files
           \/ files' = [f \in DOMAIN files \cup {local_filename} |->
                           IF f = local_filename THEN "truncated" ELSE files[f]]
    /\ all_search_results_data' =
          LockedAppend(all_search_results_data,
                       ResultData(target_urls[t], CurrentUnit(task[t]), None))
    /\ task' = [task EXCEPT ![t] = AfterDownload(@, None)]
    /\ UNCHANGED <<call, main_pc, download_history, global_page_html>>

\* f.write returned: download_history[image_content_md5] = local_filename
WriteOk(t) ==
    /\ Running(t)
    /\ task[t].pc = "write"
    /\ LET unit == CurrentUnit(task[t])
           image_bytes == ResponseBody(unit.src)
           image_content_md5 == calculate_md5(image_bytes)
           local_filename == LocalFilename(unit.src, image_content_md5)
       IN  /\ files' = [f \in DOMAIN files \cup {local_filename} |->
                           IF f = local_filename THEN image_bytes ELSE files[f]]
           /\ download_history' = [h \in DOMAIN download_history \cup {image_content_md5} |->
                           IF h = image_content_md5 THEN local_filename ELSE download_history[h]]
           /\ all_search_results_data' =
                 LockedAppend(all_search_results_data,
                              ResultData(target_urls[t], unit, local_filename))
           /\ task' = [task EXCEPT ![t] = AfterDownload(@, local_filename)]
    /\ UNCHANGED <<call, main_pc, global_page_html>>

\* page.close() returned: global_page_html = page_html, return
Close(t) ==
    /\ Running(t)
    /\ task[t].pc = "close"
    /\ task' = [task EXCEPT ![t].pc = "done", ![t].page_open = FALSE]
    /\ global_page_html' = task[t].page_html
    /\ UNCHANGED <<call, main_pc, all_search_results_data, download_history, files>>

\* Wall-clock time passes while the tasks are suspended: every running
\* no-new-content timer of a task inside its loop shows TickSeconds more
\* (values past the threshold are not told apart)
Tick ==
    /\ main_pc \in {"gather", "aborted"}
    /\ \E t \in Tasks : task[t].pc \in {"scroll", "fetch", "write"} /\ task[t].elapsed # NoTimer
                         /\ task[t].elapsed < NoNewTimeout
    /\ task' = [t \in Tasks |->
                  IF task[t].pc \in {"scroll", "fetch", "write"} /\ task[t].elapsed # NoTimer
                  THEN [task[t] EXCEPT !.elapsed = Min(@ + TickSeconds, NoNewTimeout)]
                  ELSE task[t]]
    /\ UNCHANGED <<call, main_pc, all_search_results_data, download_history, files, global_page_html>>

Next ==
    \/ LoadHistory
    \/ ReadUrlsEmpty
    \/ StartTasks
    \/ GatherDone
    \/ GatherRaise
    \/ WriteElementReport
    \/ OpenElementReport
    \/ ExportResults
    \/ SaveHistory
    \/ Tick
    \/ \E t \in Tasks :
          \/ Cancel(t)
          \/ NavFail(t)
          \/ NavOk(t)
          \/ Scroll(t)
          \/ FetchFail(t)
          \/ FetchHit(t)
          \/ FetchMiss(t)
          \/ WriteFail(t)
          \/ WriteOk(t)
          \/ Close(t)

Spec == Init /\ [][Next]_vars

(***************************************************************************)
(* Vocabulary of the properties.                                           *)
(***************************************************************************)
Records == DOMAIN all_search_results_data

\* The records task t appended
RecordsOf(t) == {i \in Records : all_search_results_data[i].search_url = target_urls[t]}

RecordPair(r) == <<r.thumbnail_url, r.original_page_url>>

RecordKey(r) == UniqueKey(r.thumbnail_url, r.original_page_url)

Bodies == {"B1", "B2"}

\* The files on disk that hold the bytes b
FilesHolding(b) == {f \in DOMAIN files : files[f] = b}

\* The task took a step of its own code (time passing and cancellation are
\* not steps of the task)
TaskStepped(t) ==
    /\ task'[t].pc # "cancelled"
    /\ [task'[t] EXCEPT !.elapsed = task[t].elapsed] # task[t]

\* C1: byte-identical payloads fetched under different URLs end in exactly
\* one file on disk, and every record of those URLs that carries a local
\* path carries the same one, under every interleaving of the URL tasks.
C1_OneFilePerContent ==
    \A b \in Bodies :
        LET refs == {i \in Records :
                        /\ ResponseBody(all_search_results_data[i].thumbnail_url) = b
                        /\ all_search_results_data[i].local_path # ""}
        IN  refs # {} =>
              /\ Cardinality(FilesHolding(b)) = 1
              /\ \A i, j \in refs :
                    all_search_results_data[i].local_path = all_search_results_data[j].local_path

\* C2: between a task's membership check of a hash (after which it waits in
\* the file write) and its insertion of the hash no other URL task takes a
\* step, and an entry of the history map, once written, is never overwritten
\* with another path.
C2_CheckThenInsertAtomic ==
    [][ /\ \A t \in Tasks : task[t].pc = "write" =>
              \A u \in Tasks \ {t} : ~TaskStepped(u)
        /\ \A h \in DOMAIN download_history :
              /\ h \in DOMAIN download_history'
              /\ download_history'[h] = download_history[h] ]_vars

\* The loop of task t is over and it ran at least one iteration
LoopOver(t) == task[t].pc \in {"close", "done"} /\ task[t].scroll_attempts > 0

\* C3: a task appends exactly one record for each distinct (thumbnail URL,
\* detail URL) pair of a usable unit it met: no pair twice, and no two
\* different pairs taken for the same unit.
C3_OneRecordPerPair ==
    \A t \in Tasks :
        LoopOver(t) =>
            \A pair \in task[t].encountered :
                Cardinality({i \in RecordsOf(t) :
                                RecordPair(all_search_results_data[i]) = pair}) = 1

\* C4: the result collection never holds two records with the same
\* (thumbnail URL, detail-page URL) pair, whichever tasks appended them.
C4_OneRecordPerPairInRun ==
    \A i, j \in Records :
        RecordPair(all_search_results_data[i]) = RecordPair(all_search_results_data[j]) => i = j

\* C5: while no iteration of a task has produced a new unit (its seen-set is
\* empty), whatever the pages looked like (no container, no unit, only units
\* without a usable image), the task is never left by an error, it makes at
\* most max_scroll_attempts attempts, and its loop is over only at the cap or
\* with the no-new-content timer at the threshold.
C5_StopsNormallyWithoutNewUnits ==
    \A t \in Tasks :
        task[t].processed_image_detail_urls = {} =>
            /\ task[t].pc # "crashed"
            /\ task[t].scroll_attempts <= max_scroll_attempts
            /\ LoopOver(t) =>
                  \/ task[t].scroll_attempts = max_scroll_attempts
                  \/ task[t].elapsed >= NoNewTimeout

\* The loop of task t was left before the attempt cap
EndedBeforeCap(t) ==
    /\ task[t].pc \in {"close", "done", "crashed"}
    /\ task[t].scroll_attempts > 0
    /\ task[t].scroll_attempts < max_scroll_attempts

\* C6: the loop is left before the attempt cap only at an iteration with
\* zero new units at which the timer has run for the threshold, and the task
\* appended no record since that timer started.
C6_EarlyEndOnlyOnTimeout ==
    \A t \in Tasks :
        EndedBeforeCap(t) =>
            /\ task[t].newly_processed_this_scroll = 0
            /\ task[t].elapsed >= NoNewTimeout
            /\ ~task[t].appended_since_start

\* Task t completes an iteration that produced no new unit: from the scroll
\* it goes to the next attempt or leaves the loop, without a download
IterationWithoutNew(t) ==
    /\ task[t].pc = "scroll"
    /\ \/ task'[t].pc \in {"close", "crashed"}
       \/ /\ task'[t].pc = "scroll"
          /\ task'[t].scroll_attempts = task[t].scroll_attempts + 1

\* C7 as stated: an iteration with zero new units, reached with the timer
\* past the threshold (so the last iteration with new units, which the task
\* had, is at least that long ago), ends the loop, also when the container
\* is empty or missing.
C7_TimeoutAlwaysEndsLoop ==
    [][ \A t \in Tasks :
           ( /\ IterationWithoutNew(t)
             /\ task[t].processed_image_detail_urls # {}
             /\ task[t].elapsed >= NoNewTimeout )
               => task'[t].pc = "close" ]_vars

\* C7 amended: an iteration that finds the container with at least one unit
\* and no new one, with the timer (started at the first such iteration since
\* its last reset) at the threshold, ends the loop at that iteration; an
\* iteration without the container leaves the timer as it is and one with an
\* empty container resets it, and neither ends the loop before the cap.
C7_TimeoutEndsLoopWhenUnitsShown ==
    [][ \A t \in Tasks :
           IterationWithoutNew(t) =>
               LET page == Pages[task'[t].page_html] IN
               /\ (page.container /\ Len(page.units) > 0 /\ task[t].elapsed >= NoNewTimeout)
                     => (task'[t].pc = "close"
                         /\ task'[t].scroll_attempts = task[t].scroll_attempts)
               /\ ~page.container
                     => (task'[t].elapsed = task[t].elapsed
                         /\ (task'[t].pc = "close"
                                => task[t].scroll_attempts = max_scroll_attempts))
               /\ (page.container /\ Len(page.units) = 0)
                     => (task'[t].elapsed = NoTimer
                         /\ (task'[t].pc = "close"
                                => task[t].scroll_attempts = max_scroll_attempts)) ]_vars

\* Witness of C7: a task left its loop by the timeout before the cap
C7_Witness ==
    \E t \in Tasks :
        /\ task[t].pc = "close"
        /\ task[t].scroll_attempts < max_scroll_attempts
        /\ task[t].elapsed >= NoNewTimeout
        /\ Len(Pages[task[t].page_html].units) > 0

\* Task t ended on a navigation failure: returned without an iteration
NavFailed(t) == task[t].pc = "done" /\ task[t].scroll_attempts = 0

\* C8: a task whose navigation fails closes its page and returns at once,
\* without retry or scroll attempt; the step changes neither the result
\* list, the history map, the last-HTML slot, main() nor any other task, and
\* the task never appends a record or moves again.
C8_NavFailureIsLocal ==
    [][ \A t \in Tasks :
          /\ (task[t].pc = "nav" /\ task'[t].pc \notin {"nav", "scroll", "cancelled"}) =>
                /\ task'[t].pc = "done"
                /\ ~task'[t].page_open
                /\ task'[t].scroll_attempts = 0
                /\ UNCHANGED <<all_search_results_data, download_history, files,
                               global_page_html, main_pc>>
                /\ \A u \in Tasks \ {t} : task'[u] = task[u]
          /\ NavFailed(t) =>
                /\ task'[t] = task[t]
                /\ RecordsOf(t) = {}
                /\ (RecordsOf(t))' = {} ]_vars

\* Witness of C8: one task ended on a navigation failure, the other ran its
\* loop to the end with records, and gather returned
C8_Witness ==
    /\ main_pc = "browser_closed"
    /\ \E t, u \in Tasks :
          /\ NavFailed(t)
          /\ task[u].pc = "done"
          /\ task[u].scroll_attempts > 0
          /\ RecordsOf(u) # {}

\* process_image_data returns to task t in this step
DownloadReturns(t) ==
    /\ task[t].pc \in {"fetch", "write"}
    /\ task'[t].pc # "cancelled"
    /\ ~(task[t].pc = "fetch" /\ task'[t].pc = "write")
    /\ <<task'[t].pc, task'[t].scroll_attempts, task'[t].unit_idx>>
          # <<task[t].pc, task[t].scroll_attempts, task[t].unit_idx>>

\* C9: when process_image_data returns no result for a new unit, the history
\* map is unchanged, the unit's record is appended with empty local path and
\* hyperlink, and the loop goes on (it is left only at the attempt cap).
C9_FetchFailureKeepsRecord ==
    [][ \A t \in Tasks :
          (DownloadReturns(t) /\ task'[t].local_image_path = None) =>
              /\ download_history' = download_history
              /\ Len(all_search_results_data') = Len(all_search_results_data) + 1
              /\ SubSeq(all_search_results_data', 1, Len(all_search_results_data))
                    = all_search_results_data
              /\ LET r == all_search_results_data'[Len(all_search_results_data')] IN
                    /\ r.search_url = target_urls[t]
                    /\ r.thumbnail_url = CurrentUnit(task[t]).src
                    /\ r.local_path = ""
                    /\ r.local_hyperlink = ""
              /\ \/ task'[t].pc \in {"fetch", "scroll"}
                 \/ /\ task'[t].pc = "close"
                    /\ task[t].scroll_attempts = max_scroll_attempts ]_vars

\* Witness of C9: a record without local path was appended and its task went
\* on to a later scroll attempt
C9_Witness ==
    \E t \in Tasks : \E i \in RecordsOf(t) :
        /\ all_search_results_data[i].local_path = ""
        /\ all_search_results_data[i].local_hyperlink = ""
        /\ task[t].pc = "scroll"
        /\ task[t].scroll_attempts >= 2

AllDone == \A t \in Tasks : task[t].pc = "done"

Closes(t) == task[t].pc = "close" /\ task'[t].pc = "done"

\* C11: a task that navigated (it has made a scroll attempt) has closed its
\* page once it has ended; the step in which it returns after page.close()
\* stores the HTML of its final iteration in the last-HTML slot, and no other
\* step changes the slot, so the value main() passes to the structure analysis
\* is the HTML of the task that finished last.
C11_LastHtmlOfLastFinisher ==
    [][ /\ \A t \in Tasks :
              (task'[t].pc \in {"done", "crashed"} /\ task'[t].scroll_attempts > 0)
                  => ~task'[t].page_open
        /\ \A t \in Tasks :
              (task[t].pc # "done" /\ task'[t].pc = "done" /\ task[t].scroll_attempts > 0)
                  => /\ task[t].page_html # NoHtml
                     /\ global_page_html' = task[t].page_html
        /\ (\A t \in Tasks : ~Closes(t)) => global_page_html' = global_page_html ]_vars

\* main() was left by an exception that no log or spreadsheet write raised
LeftWithoutWriteError == main_pc \in {"aborted", "viewer_failed"}

\* C12: once read_urls_from_file has given a URL, main() is left by an
\* exception only when a write of the element log, of the element workbook or
\* of the record workbook raised: whatever happened in the URL tasks, main()
\* goes on to the export of the records and from there to the saving of the
\* download history.
C12_ExportAlwaysReached == ~LeftWithoutWriteError

\* Task t completes, in this step, an iteration whose HTML has no main
\* content container
MissingContainerIteration(t) ==
    /\ task[t].pc = "scroll"
    /\ TaskStepped(t)
    /\ ~Pages[task'[t].page_html].container

\* C16: an iteration that does not find the main content container appends
\* no record, leaves the seen-set and the no-new-content timer of the task as
\* they are and raises nothing; the attempt it used stays counted and the
\* loop goes on to the next attempt unless the cap is reached; the number of
\* scroll attempts of a task never exceeds the cap.
C16_MissingContainerNonFatal ==
    [][ \A t \in Tasks :
          /\ task'[t].scroll_attempts <= max_scroll_attempts
          /\ MissingContainerIteration(t) =>
                /\ all_search_results_data' = all_search_results_data
                /\ task'[t].processed_image_detail_urls = task[t].processed_image_detail_urls
                /\ task'[t].elapsed = task[t].elapsed
                /\ task'[t].no_new_images_count = task[t].no_new_images_count
                /\ task'[t].page_open
                /\ IF task[t].scroll_attempts < max_scroll_attempts
                   THEN /\ task'[t].pc = "scroll"
                        /\ task'[t].scroll_attempts = task[t].scroll_attempts + 1
                   ELSE /\ task'[t].pc = "close"
                        /\ task'[t].scroll_attempts = task[t].scroll_attempts ]_vars

\* Witness of C16: with records in its seen-set and its timer running, a task
\* met a page without the container and went on to its last attempt
C16_Witness ==
    \E t \in Tasks :
        /\ task[t].pc = "scroll"
        /\ task[t].page_html # NoHtml
        /\ ~Pages[task[t].page_html].container
        /\ task[t].scroll_attempts = max_scroll_attempts
        /\ task[t].processed_image_detail_urls # {}
        /\ task[t].elapsed # NoTimer

\* C17: no task is ended by an exception of the zero-new branch, so none is
\* left with its page open, main() is not left through gather and no other
\* task is cancelled.
C17_CounterAssignedBeforeRead ==
    /\ \A t \in Tasks : task[t].pc \notin {"crashed", "cancelled"}
    /\ main_pc # "aborted"

(***************************************************************************)
(* The pure functions: get_common_prefix, get_element_path and the count   *)
(* of a reaction button.  They are examined under SpecFn, whose initial    *)
(* states hold the arguments of one call and whose actions run the call.   *)
(***************************************************************************)

\* the separator of a path string
Sep == " > "

RECURSIVE Split(_, _)
\* str.split(sep) for a non-empty sep
Split(s, sep) ==
    LET hits == {i \in 1..(Len(s) - Len(sep) + 1) : SubSeq(s, i, i + Len(sep) - 1) = sep}
    IN  IF hits = {} THEN <<s>>
        ELSE LET i == SetMin(hits)
             IN  <<SubSeq(s, 1, i - 1)>> \o Split(SubSeq(s, i + Len(sep), Len(s)), sep)

RECURSIVE Join(_, _)
\* sep.join(parts)
Join(sep, parts) ==
    IF Len(parts) = 0 THEN ""
    ELSE IF Len(parts) = 1 THEN parts[1]
    ELSE parts[1] \o sep \o Join(sep, Tail(parts))

\* "p and p[0]": the entry is a non-empty list whose first element is a
\* non-empty string
Truthy(p) == Len(p) > 0 /\ p[1] # ""

\* get_common_prefix(paths): paths is a list of one-element lists
\* [path_string]
get_common_prefix(paths) ==
    IF Len(paths) = 0 THEN ""
    ELSE LET kept == SelectSeq(paths, Truthy)
             split_paths == [k \in 1..Len(kept) |-> Split(kept[k][1], Sep)]
         IN  IF Len(split_paths) = 0 THEN ""
             ELSE LET min_len == SetMin({Len(split_paths[k]) : k \in 1..Len(split_paths)})
                      \* the levels at which the for loop breaks
                      differ == {i \in 1..min_len :
                                   Cardinality({split_paths[k][i] : k \in 1..Len(split_paths)}) # 1}
                      n == IF differ = {} THEN min_len ELSE SetMin(differ) - 1
                  IN  Join(Sep, SubSeq(split_paths[1], 1, n))

\* A parsed document is a tree of tags: name, attrs (the attributes, as one
\* string) and children in document order.  A tag is addressed by its
\* position, the child indexes from the root down; the value of a tag is what
\* bs4's Tag.__eq__ compares: name, attributes and contents, recursively.
Tag(name, attrs, children) == [name |-> name, attrs |-> attrs, children |-> children]

RECURSIVE NodeAt(_, _)
NodeAt(doc, pos) ==
    IF Len(pos) = 0 THEN doc ELSE NodeAt(doc.children[pos[1]], Tail(pos))

\* current.parent
Parent(pos) == SubSeq(pos, 1, Len(pos) - 1)

RECURSIVE PositionsIn(_)
\* the positions of all tags of a tree
PositionsIn(doc) ==
    {<< >>} \cup UNION { {<<i>> \o q : q \in PositionsIn(doc.children[i])}
                           : i \in 1..Len(doc.children) }

\* current.parent.find_all(tag, recursive=False): the children named tag
SameTagChildren(parent, tag) == {i \in 1..Len(parent.children) : parent.children[i].name = tag}

\* siblings.index(current) + 1: list.index returns the first element that is
\* current or == current, and == between tags is Tag.__eq__
IndexOf(parent, tag, node) ==
    LET first == SetMin({i \in SameTagChildren(parent, tag) : parent.children[i] = node})
    IN  Cardinality({j \in SameTagChildren(parent, tag) : j <= first})

RECURSIVE PathFrom(_, _, _, _)
\* the while loop of get_element_path with current and path as they stand
PathFrom(doc, current, ancestor, path) ==
    IF NodeAt(doc, current) = NodeAt(doc, ancestor) THEN path      \* current != ancestor fails
    ELSE IF Len(current) = 0 THEN path                             \* not current.parent
    ELSE LET node == NodeAt(doc, current)
             parent == NodeAt(doc, Parent(current))
             tag == IF Cardinality(SameTagChildren(parent, node.name)) > 1
                    THEN node.name \o "(" \o ToString(IndexOf(parent, node.name, node)) \o ")"
                    ELSE node.name
         IN  PathFrom(doc, Parent(current), ancestor, <<tag>> \o path)

\* get_element_path(element, ancestor) for two tags of doc
get_element_path(doc, element, ancestor) == Join(Sep, PathFrom(doc, element, ancestor, << >>))

Digits == "0123456789"

IsDigit(c) == Positions(Digits, c) # {}

\* one or more decimal digits
IsDigits(s) == Len(s) > 0 /\ \A i \in 1..Len(s) : IsDigit(CharAt(s, i))

RECURSIVE RemoveChar(_, _)
\* str.replace(c, '')
RemoveChar(s, c) ==
    IF Len(s) = 0 THEN ""
    ELSE (IF CharAt(s, 1) = c THEN "" ELSE CharAt(s, 1)) \o RemoveChar(SubSeq(s, 2, Len(s)), c)

RECURSIVE Strip(_)
\* str.strip()
Strip(s) ==
    IF Len(s) > 0 /\ CharAt(s, 1) = " " THEN Strip(SubSeq(s, 2, Len(s)))
    ELSE IF Len(s) > 0 /\ CharAt(s, Len(s)) = " " THEN Strip(SubSeq(s, 1, Len(s) - 1))
    ELSE s

RECURSIVE StripZeros(_)
\* str(int(digits)): the decimal digits without leading zeros
StripZeros(d) ==
    IF Len(d) > 1 /\ CharAt(d, 1) = "0" THEN StripZeros(SubSeq(d, 2, Len(d))) ELSE d

RECURSIVE StripTrailingZeros(_)
StripTrailingZeros(d) ==
    IF Len(d) > 0 /\ CharAt(d, Len(d)) = "0"
    THEN StripTrailingZeros(SubSeq(d, 1, Len(d) - 1)) ELSE d

\* The strings float() accepts among those made of digits and ".": digits
\* with at most one point and at least one digit
IsFloatLiteral(s) ==
    LET ip == SplitFirst(s, ".")
        fp == IF Positions(s, ".") = {} THEN "" ELSE SubSeq(s, Len(ip) + 2, Len(s))
    IN  /\ Cardinality(Positions(s, ".")) <= 1
        /\ Len(ip) + Len(fp) > 0
        /\ \A i \in 1..Len(s) : IsDigit(CharAt(s, i)) \/ CharAt(s, i) = "."

\* The decimal literal s times 10^zeros, truncated toward zero, in exact
\* decimal arithmetic: the point moves right by zeros places
ExactScaled(s, zeros) ==
    LET ip == SplitFirst(s, ".")
        fp == IF Positions(s, ".") = {} THEN "" ELSE SubSeq(s, Len(ip) + 2, Len(s))
        padded == fp \o SubSeq("000000", 1, zeros)
    IN  StripZeros("0" \o ip \o SubSeq(padded, 1, zeros))

\* The value of the literal without leading and trailing zeros
Canonical(s) ==
    LET ip == SplitFirst(s, ".")
        fp == IF Positions(s, ".") = {} THEN "" ELSE SubSeq(s, Len(ip) + 2, Len(s))
    IN  StripZeros("0" \o ip) \o "." \o StripTrailingZeros(fp)

\* The values, among the literals of up to five characters over 0, 1, 2 and
\* ".", whose binary64 nearest neighbour lies below them by enough that
\* float(s) * 1000 and float(s) * 1000000 round to just under the exact
\* integer, so that int() gives one less
Binary64Short == {"2.01", "1.001", "1.011", "1.021", "2.002", "2.022"}

RECURSIVE Decrement(_)
\* the decimal digits of n - 1 for the digits of n > 0 (with leading zeros)
Decrement(d) ==
    IF CharAt(d, Len(d)) = "0"
    THEN Decrement(SubSeq(d, 1, Len(d) - 1)) \o "9"
    ELSE SubSeq(d, 1, Len(d) - 1) \o CharAt(Digits, SetMin(Positions(Digits, CharAt(d, Len(d)))) - 1)

\* str(int(float(s) * 10^zeros)) in binary64 arithmetic, for zeros in {3, 6}
FloatScaled(s, zeros) ==
    IF Canonical(s) \in Binary64Short
    THEN StripZeros(Decrement(ExactScaled(s, zeros)))
    ELSE ExactScaled(s, zeros)

ValueError == "<ValueError>"

\* parse_count_text(text): the count as a string, or ValueError where float()
\* raises (only the int() of the last branch is inside the try)
parse_count_text(text) ==
    IF text = "" THEN "0"
    ELSE LET stripped == RemoveChar(Strip(text), ",") IN
         IF Positions(stripped, "K") # {}
         THEN LET number == RemoveChar(stripped, "K")
              IN  IF IsFloatLiteral(number) THEN FloatScaled(number, 3) ELSE ValueError
         ELSE IF Positions(stripped, "M") # {}
         THEN LET number == RemoveChar(stripped, "M")
              IN  IF IsFloatLiteral(number) THEN FloatScaled(number, 6) ELSE ValueError
         ELSE IF IsDigits(stripped) THEN StripZeros(stripped) ELSE "0"

\* w matches \d+(\.\d+)?[KM]? as a whole
IsCountToken(w) ==
    LET number == IF Len(w) > 0 /\ CharAt(w, Len(w)) \in {"K", "M"}
                  THEN SubSeq(w, 1, Len(w) - 1) ELSE w
        ip == SplitFirst(number, ".")
    IN  \/ IsDigits(number)
        \/ /\ Cardinality(Positions(number, ".")) = 1
           /\ IsDigits(ip)
           /\ IsDigits(SubSeq(number, Len(ip) + 2, Len(number)))

\* re.search(r'(\d+(\.\d+)?[KM]?)$', s): group 1 of the leftmost match, None
\* without a match
SearchCount(s) ==
    LET starts == {i \in 1..Len(s) : IsCountToken(SubSeq(s, i, Len(s)))}
    IN  IF starts = {} THEN None ELSE SubSeq(s, SetMin(starts), Len(s))

\* A reaction button as the loop reads it: label is the text of its
\* mantine-Button-label span (None without the span), rest the text that
\* follows the label inside the label's parent, badge the text of its
\* mantine-Badge-inner span (None without it), icon what its icon div shows.
\* count_value as the loop computes it for the button:
CountValue(btn) ==
    LET from_label ==
            IF btn.label = None THEN "0"
            ELSE IF SearchCount(btn.label) # None
                 THEN parse_count_text(SearchCount(btn.label))
            ELSE IF btn.label \o btn.rest # "" /\ SearchCount(btn.label \o btn.rest) # None
                 THEN parse_count_text(SearchCount(btn.label \o btn.rest))
            ELSE "0"
    IN  IF btn.badge # None /\ SearchCount(btn.badge) # None
        THEN parse_count_text(SearchCount(btn.badge))
        ELSE from_label

\* likes_count of a unit with the one button btn: "N/A" unless the icon is
\* the thumbs-up
likes_count(btn) == IF btn.icon = "thumbs_up" THEN CountValue(btn) ELSE "N/A"

(***************************************************************************)
(* The calls SpecFn examines.                                              *)
(***************************************************************************)

\* Bounds of the arguments
MaxTokens == 2
MaxPaths == 3
MaxSiblings == 2
MaxLen == 5

\* All sequences over S of length 0..n
SeqsUpTo(S, n) == UNION {[1..k -> S] : k \in 0..n}

\* The result of a call that has not run yet
Pending == "<pending>"

\* Path strings as get_element_path builds them, the empty path included
PathStrings == {Join(Sep, toks) : toks \in SeqsUpTo({"div", "div(2)", "img"}, MaxTokens)}

PrefixCalls ==
    {[fn |-> "get_common_prefix", paths |-> paths, ret |-> Pending] :
        paths \in SeqsUpTo({<<s>> : s \in PathStrings}, MaxPaths)}

\* The image cards of a gallery page: a linked image, an image after two
\* equal empty divs, an image in a card of another class, and a spacer
Cards ==
    { Tag("div", "box", <<Tag("a", "", <<Tag("img", "", << >>)>>)>>),
      Tag("div", "box", <<Tag("div", "", << >>), Tag("div", "", << >>), Tag("img", "", << >>)>>),
      Tag("div", "wide", <<Tag("img", "", << >>)>>),
      Tag("span", "", << >>) }

\* BeautifulSoup(page_html, "html.parser") of a page with the main container
\* and the given cards in it
Document(cards) == Tag("[document]", "", <<Tag("div", "all", cards)>>)

Documents == {Document(cards) : cards \in SeqsUpTo(Cards, MaxSiblings)}

\* element is a tag of doc and ancestor is element or one of its ancestors
ElementCalls ==
    UNION { UNION { {[fn |-> "get_element_path", doc |-> doc, element |-> element,
                      ancestor |-> SubSeq(element, 1, k), ret |-> Pending] : k \in 0..Len(element)}
                    : element \in PositionsIn(doc) }
            : doc \in Documents }

RECURSIVE Texts(_)
\* The texts of up to n characters a count label can show
Texts(n) ==
    IF n = 0 THEN {""}
    ELSE LET shorter == Texts(n - 1)
         IN  shorter \cup {t \o c : t \in shorter, c \in {"0", "1", "2", ",", ".", "K", "M"}}

\* Buttons with only a label, and buttons with or without label, following
\* text, badge and thumbs-up icon
Buttons ==
    {[label |-> t, rest |-> "", badge |-> None, icon |-> "thumbs_up"] : t \in Texts(MaxLen)}
    \cup {[label |-> l, rest |-> r, badge |-> b, icon |-> i] :
             l \in {None, "", "2"}, r \in {"", "1K"}, b \in {None, "", "2M"},
             i \in {"thumbs_up", "other"}}

ButtonCalls == {[fn |-> "likes_count", btn |-> btn, ret |-> Pending] : btn \in Buttons}

InitFn ==
    /\ main_pc = "load_history"
    /\ task = [t \in Tasks |-> InitTask]
    /\ all_search_results_data = << >>
    /\ download_history = EmptyHistory
    /\ files = EmptyHistory
    /\ global_page_html = NoHtml
    /\ call \in PrefixCalls \cup ElementCalls \cup ButtonCalls

CallGetCommonPrefix ==
    /\ call.fn = "get_common_prefix"
    /\ call.ret = Pending
    /\ call' = [call EXCEPT !.ret = get_common_prefix(call.paths)]
    /\ UNCHANGED <<main_pc, task, all_search_results_data, download_history, files, global_page_html>>

CallGetElementPath ==
    /\ call.fn = "get_element_path"
    /\ call.ret = Pending
    /\ call' = [call EXCEPT !.ret = get_element_path(call.doc, call.element, call.ancestor)]
    /\ UNCHANGED <<main_pc, task, all_search_results_data, download_history, files, global_page_html>>

\* The loop over the buttons of a unit, for a unit with the one button
ReadButton ==
    /\ call.fn = "likes_count"
    /\ call.ret = Pending
    /\ call' = [call EXCEPT !.ret = likes_count(call.btn)]
    /\ UNCHANGED <<main_pc, task, all_search_results_data, download_history, files, global_page_html>>

NextFn ==
    \/ CallGetCommonPrefix
    \/ CallGetElementPath
    \/ ReadButton

SpecFn == InitFn /\ [][NextFn]_vars

\* The tokens of a path string; the empty string is the empty path
Tokens(s) == IF s = "" THEN << >> ELSE Split(s, Sep)

IsPrefix(a, b) == Len(a) <= Len(b) /\ SubSeq(b, 1, Len(a)) = a

\* C13: the result of get_common_prefix is a prefix of every path given (of
\* an empty path too, which makes it empty), no longer prefix is shared by
\* all of them, and no path at all gives the empty result.
C13_LongestCommonPrefix ==
    (call.fn = "get_common_prefix" /\ call.ret # Pending) =>
        LET n == Len(call.paths)
            toks == [k \in 1..n |-> Tokens(call.paths[k][1])]
            r == Tokens(call.ret)
        IN  /\ \A k \in 1..n : IsPrefix(r, toks[k])
            /\ n = 0 => r = << >>
            /\ n > 0 => ~ \A k \in 1..n : /\ Len(toks[k]) > Len(r)
                                          /\ toks[k][Len(r) + 1] = toks[1][Len(r) + 1]

\* The token the path description gives the tag at pos: its name, with its
\* own position among the same-tag children of its parent when there are
\* several
OwnToken(doc, pos) ==
    LET parent == NodeAt(doc, Parent(pos))
        i == pos[Len(pos)]
        name == parent.children[i].name
        same == SameTagChildren(parent, name)
    IN  IF Cardinality(same) > 1
        THEN name \o "(" \o ToString(Cardinality({j \in same : j <= i})) \o ")"
        ELSE name

\* C14: get_element_path gives, from the ancestor (excluded) down to the
\* element (included), one token per tag of the parent chain, each the tag's
\* name with the tag's own position among its same-tag siblings when it has
\* any; two different same-tag siblings never get the same token.
C14_OneTokenPerChainNode ==
    (call.fn = "get_element_path" /\ call.ret # Pending) =>
        LET depth == Len(call.element) - Len(call.ancestor)
        IN  Tokens(call.ret) =
               [k \in 1..depth |->
                   OwnToken(call.doc, SubSeq(call.element, 1, Len(call.ancestor) + k))]

\* The text is a count the description covers: digits, in groups of three
\* after each thousands separator, alone or as a decimal number with a
\* trailing K or M; or a text without any digit (the empty text included)
Covered(text) ==
    LET suffixed == Len(text) > 0 /\ CharAt(text, Len(text)) \in {"K", "M"}
        number == IF suffixed THEN SubSeq(text, 1, Len(text) - 1) ELSE text
        ip == SplitFirst(number, ".")
        pointed == Positions(number, ".") # {}
        groups == Split(ip, ",")
        grouped == /\ IsDigits(groups[1])
                   /\ Len(groups) > 1 => Len(groups[1]) <= 3
                   /\ \A k \in 2..Len(groups) : IsDigits(groups[k]) /\ Len(groups[k]) = 3
    IN  \/ grouped /\ ~pointed /\ ~suffixed
        \/ grouped /\ suffixed /\ (pointed => IsDigits(SubSeq(number, Len(ip) + 2, Len(number))))
        \/ \A i \in 1..Len(text) : ~IsDigit(CharAt(text, i))

\* The normalized value of a covered text
NormalizedCount(text) ==
    LET t == RemoveChar(text, ",")
    IN  IF IsDigits(t) THEN StripZeros(t)
        ELSE IF IsCountToken(t) /\ CharAt(t, Len(t)) = "K"
             THEN ExactScaled(SubSeq(t, 1, Len(t) - 1), 3)
        ELSE IF IsCountToken(t) /\ CharAt(t, Len(t)) = "M"
             THEN ExactScaled(SubSeq(t, 1, Len(t) - 1), 6)
        ELSE "0"

\* C15: the count recorded for a thumbs-up button that shows its count in
\* its label is the normalized value of the text: separators stripped, a
\* trailing K or M multiplying by 1 000 or 1 000 000 with truncation toward
\* zero, and 0 for an empty text or one without digits.
C15_RecordedCountIsNormalized ==
    ( /\ call.fn = "likes_count"
      /\ call.ret # Pending
      /\ call.btn.icon = "thumbs_up"
      /\ call.btn.label # None
      /\ call.btn.rest = ""
      /\ call.btn.badge = None
      /\ Covered(call.btn.label) )
        => call.ret = NormalizedCount(call.btn.label)

====
